---- MODULE Spec2Model ----
(***************************************************************************)
(* A model of the api application of api_yamdb: the signup / token flow,   *)
(* the user directory viewset, the category and genre viewsets, and the    *)
(* review resource nested under a title with the title rating.             *)
(*                                                                         *)
(* The persistent store is the state.  Every request handler is one        *)
(* action; the last response is kept in resp so that it can be observed.   *)
(***************************************************************************)
EXTENDS Integers, FiniteSets, Sequences, TLC

VARIABLES
    users,       \* User rows: [id, username, email, bio, role]
    nextId,      \* next primary key of the User table
    clock,       \* server time, in units of the confirmation-code lifetime
    exchanged,   \* history: the confirmation code of the latest exchange for a token
    categories,  \* Category rows: [name, slug]
    genres,      \* Genre rows: [name, slug]
    titles,      \* ids of the Title rows
    reviews,     \* Review rows: [id, title, author, score]
    nextReviewId,\* next primary key of the Review table
    inflight,    \* review-create requests between validation and save
    req,         \* the arguments of the last request: path parameters and body
    resp         \* the response to the last request, with its caller:
                 \* [op, caller, status, fields, token, rating, mail]

vars == <<users, nextId, clock, exchanged, categories, genres, titles,
          reviews, nextReviewId, inflight, req, resp>>

authVars == <<users, nextId, clock, exchanged>>
catalogVars == <<categories, genres>>
reviewVars == <<titles, reviews, nextReviewId, inflight>>

----------------------------------------------------------------------------
(* Bounds of the model *)

MaxId == 2          \* user primary keys 1..MaxId
MaxClock == 2       \* the clock runs 0..MaxClock
MaxReviewId == 2    \* review primary keys 1..MaxReviewId
MaxInflight == 2    \* concurrent review-create requests

(* Input alphabets *)

Absent == "<absent>"                 \* a key the JSON body does not carry
Usernames == {"alice", "bob", "me"}  \* usernames of the accepted charset
BadUsernames == {"a b"}              \* rejected by UnicodeUsernameValidator
Emails == {"a@x", "b@x"}
Bios == {"hi"}
Roles == {"user", "moderator", "admin"}      \* User.Roles.choices
RoleInputs == {"user", "admin", "", "owner"} \* "" is falsy, "owner" is no choice
Scores == {1, 2}
Slugs == {"s1", "s2"}
Names == {"n1", "n2"}

Anon == 0                            \* the caller of a request without credentials

----------------------------------------------------------------------------
(* Responses *)

NoFields == {}
NoToken == {}
NoRating == {}
NoMail == {}

\* fields: the keys of an error body; token: the user the issued access token
\* names; rating: the rating of a title body, empty for null; mail: the
\* confirmation code the request handed to the notification sink
Resp(op, caller, status, fields, token, rating, mail) ==
    [op |-> op, caller |-> caller, status |-> status, fields |-> fields,
     token |-> token, rating |-> rating, mail |-> mail]

Plain(op, caller, status) ==
    Resp(op, caller, status, NoFields, NoToken, NoRating, NoMail)

Error(op, caller, status, fields) ==
    Resp(op, caller, status, fields, NoToken, NoRating, NoMail)

----------------------------------------------------------------------------
(* The user directory *)

Ids == 1..MaxId

UserOf(id) == CHOOSE u \in users : u.id = id

Callers == {u.id : u \in users} \cup {Anon}

ByUsername(name) == {u \in users : u.username = name}

\* UnicodeUsernameValidator
UsernameValid(value) == value \notin BadUsernames

\* is_staff of the User model
is_staff(u) == u.role = "admin"

IsAuthenticated(caller) == caller # Anon

IsAdminUser(caller) == caller # Anon /\ is_staff(UserOf(caller))

\* a denied request: 401 without credentials, 403 with
Denied(caller) == IF caller = Anon THEN 401 ELSE 403

----------------------------------------------------------------------------
(* Confirmation codes: default_token_generator *)

PASSWORD_RESET_TIMEOUT == 1

\* make_token(user): a keyed hash of the user's pk and state with the timestamp
make_token(user) == [uid |-> user.id, email |-> user.email, ts |-> clock]

Garbage == [uid |-> 0, email |-> "", ts |-> 0]

\* check_token that does not compare the user the code was made for
check_token_of_anyone(user, code) ==
    /\ code.email = user.email
    /\ clock - code.ts <= PASSWORD_RESET_TIMEOUT

\* check_token(user, token)
check_token(user, code) ==
    /\ code.uid = user.id
    /\ code.email = user.email
    /\ clock - code.ts <= PASSWORD_RESET_TIMEOUT

\* the codes a client can present: the value make_token gave for some user
\* state at some time, or anything else
Codes ==
    [uid : {i \in Ids : i < nextId}, email : Emails, ts : 0..clock]
       \cup {Garbage}

----------------------------------------------------------------------------
(* POST /auth/signup *)

\* SignUpSerializer.is_valid: the errors by field
SignUpErrors(username) ==
    IF ~UsernameValid(username) \/ username = "me" THEN {"username"} ELSE {}

\* a lookup that never finds the row: create in place of get_or_create
LookupNothing(username, email) == {}

\* the lookup of User.objects.get_or_create(username=..., email=...)
Lookup(username, email) ==
    {u \in users : u.username = username /\ u.email = email}

\* the unique constraints of the User table on username and on email
Conflict(username, email) ==
    \E u \in users : u.username = username \/ u.email = email

sign_up(username, email) ==
    /\ req' = [username |-> username, email |-> email]
    /\ UNCHANGED <<clock, exchanged, catalogVars, reviewVars>>
    /\ IF SignUpErrors(username) # {}
       THEN /\ resp' = Error("sign_up", Anon, 400, SignUpErrors(username))
            /\ UNCHANGED <<users, nextId>>
       ELSE IF Lookup(username, email) # {}
       THEN \* get_or_create: get
            LET user == CHOOSE u \in Lookup(username, email) : TRUE
            IN /\ resp' = Resp("sign_up", Anon, 200, NoFields, NoToken,
                               NoRating, {make_token(user)})
               /\ UNCHANGED <<users, nextId>>
       ELSE IF Conflict(username, email)
       THEN \* get_or_create: create raises IntegrityError
            /\ resp' = Error("sign_up", Anon, 400, {"error"})
            /\ UNCHANGED <<users, nextId>>
       ELSE \* get_or_create: create
            LET user == [id |-> nextId, username |-> username, email |-> email,
                         bio |-> "", role |-> "user"]
            IN /\ nextId <= MaxId
               /\ users' = users \cup {user}
               /\ nextId' = nextId + 1
               /\ resp' = Resp("sign_up", Anon, 200, NoFields, NoToken,
                               NoRating, {make_token(user)})

----------------------------------------------------------------------------
(* POST /auth/token *)

recieve_token(username, code) ==
    /\ req' = [username |-> username, code |-> code]
    /\ UNCHANGED <<users, nextId, clock, catalogVars, reviewVars>>
    /\ IF ~UsernameValid(username)
       THEN /\ resp' = Error("recieve_token", Anon, 400, {"username"})
            /\ UNCHANGED exchanged
       ELSE IF ByUsername(username) = {}
       THEN /\ resp' = Plain("recieve_token", Anon, 404)
            /\ UNCHANGED exchanged
       ELSE LET user == CHOOSE u \in users : u.username = username
            IN IF check_token(user, code)
               THEN /\ resp' = Resp("recieve_token", Anon, 200, NoFields,
                                    {user.id}, NoRating, NoMail)
                    /\ exchanged' = {code}
               ELSE /\ resp' = Error("recieve_token", Anon, 400,
                                     {"confirmation_code"})
                    /\ UNCHANGED exchanged

\* time passes
Tick ==
    /\ clock < MaxClock
    /\ clock' = clock + 1
    /\ UNCHANGED <<users, nextId, exchanged, catalogVars, reviewVars, req,
                   resp>>

----------------------------------------------------------------------------
(* UserViewSet, registered on the router as users with lookup_field username *)

UserData ==
    [username : Usernames \cup BadUsernames \cup {Absent},
     email : Emails \cup {Absent},
     bio : Bios \cup {Absent},
     role : RoleInputs \cup {Absent}]

\* request.data.get(key) is truthy
Truthy(value) == value \notin {Absent, ""}

\* UserViewSet.get_permissions; name is kwargs.get('username')
get_permissions(name, caller) ==
    IF name = "me" THEN IsAuthenticated(caller) ELSE IsAdminUser(caller)

\* UserViewSet.get_object: the rows the lookup finds
get_object(name, caller) ==
    IF name = "me" THEN ByUsername(UserOf(caller).username) ELSE ByUsername(name)

\* UserSerializer.validate_username
validate_username(value, method) ==
    ~(method = "POST" /\ ByUsername(value) # {})

\* UserSerializer.is_valid: the fields with errors; instance is the pk of the
\* row being updated, 0 on create; PATCH validates with partial=True
UserSerializerErrors(data, method, instance) ==
    {f \in {"username"} :
        \/ data.username = Absent /\ method = "POST"
        \/ data.username # Absent /\ ~UsernameValid(data.username)
        \/ data.username # Absent /\ ~validate_username(data.username, method)}
    \cup
    {f \in {"email"} :
        \/ data.email = Absent /\ method = "POST"
        \/ data.email # Absent
            /\ \E u \in users : u.email = data.email /\ u.id # instance}
    \cup
    {f \in {"role"} : data.role # Absent /\ data.role \notin Roles}

\* the row after serializer.save() wrote the validated fields
Saved(row, data) ==
    [id |-> row.id,
     username |-> IF data.username = Absent THEN row.username ELSE data.username,
     email |-> IF data.email = Absent THEN row.email ELSE data.email,
     bio |-> IF data.bio = Absent THEN row.bio ELSE data.bio,
     role |-> IF data.role = Absent THEN row.role ELSE data.role]

\* the checks of UserViewSet.update on the self-service lookup
MeUsernameRejected(name, data, caller) ==
    name = "me" /\ data.username \notin {UserOf(caller).username, Absent}

\* an update without the check of role
MeRoleAccepted(name, data) == FALSE

MeRoleRejected(name, data) ==
    name = "me" /\ Truthy(data.role)

\* GET /users/
UserList(caller) ==
    /\ req' = <<>>
    /\ UNCHANGED <<authVars, catalogVars, reviewVars>>
    /\ resp' = IF get_permissions(Absent, caller)
               THEN Plain("user_list", caller, 200)
               ELSE Plain("user_list", caller, Denied(caller))

\* POST /users/
UserCreate(caller, data) ==
    /\ req' = [data |-> data]
    /\ UNCHANGED <<clock, exchanged, catalogVars, reviewVars>>
    /\ IF ~get_permissions(Absent, caller)
       THEN /\ resp' = Plain("user_create", caller, Denied(caller))
            /\ UNCHANGED <<users, nextId>>
       ELSE IF UserSerializerErrors(data, "POST", 0) # {}
       THEN /\ resp' = Error("user_create", caller, 400,
                             UserSerializerErrors(data, "POST", 0))
            /\ UNCHANGED <<users, nextId>>
       ELSE /\ nextId <= MaxId
            /\ users' = users \cup
                 {Saved([id |-> nextId, username |-> "", email |-> "",
                         bio |-> "", role |-> "user"], data)}
            /\ nextId' = nextId + 1
            /\ resp' = Plain("user_create", caller, 201)

\* GET /users/{name}/
UserRetrieve(caller, name) ==
    /\ req' = [name |-> name]
    /\ UNCHANGED <<authVars, catalogVars, reviewVars>>
    /\ resp' = IF ~get_permissions(name, caller)
               THEN Plain("user_retrieve", caller, Denied(caller))
               ELSE IF get_object(name, caller) = {}
               THEN Plain("user_retrieve", caller, 404)
               ELSE Plain("user_retrieve", caller, 200)

\* PATCH /users/{name}/: UserViewSet.update
UserUpdate(caller, name, data) ==
    /\ req' = [name |-> name, data |-> data]
    /\ UNCHANGED <<nextId, clock, exchanged, catalogVars, reviewVars>>
    /\ IF ~get_permissions(name, caller)
       THEN /\ resp' = Plain("user_update", caller, Denied(caller))
            /\ UNCHANGED users
       ELSE IF MeUsernameRejected(name, data, caller)
       THEN /\ resp' = Error("user_update", caller, 400, {"username"})
            /\ UNCHANGED users
       ELSE IF MeRoleRejected(name, data)
       THEN /\ resp' = Error("user_update", caller, 400, {"role"})
            /\ UNCHANGED users
       ELSE IF get_object(name, caller) = {}
       THEN /\ resp' = Plain("user_update", caller, 404)
            /\ UNCHANGED users
       ELSE LET instance == CHOOSE u \in get_object(name, caller) : TRUE
                errors == UserSerializerErrors(data, "PATCH", instance.id)
                row == Saved(instance, data)
            IN IF errors # {}
               THEN /\ resp' = Error("user_update", caller, 400, errors)
                    /\ UNCHANGED users
               ELSE IF \E u \in users \ {instance} : u.username = row.username
               THEN \* the unique constraint of username: IntegrityError
                    /\ resp' = Plain("user_update", caller, 500)
                    /\ UNCHANGED users
               ELSE /\ users' = (users \ {instance}) \cup {row}
                    /\ resp' = Plain("user_update", caller, 200)

\* DELETE /users/{name}/
UserDestroy(caller, name) ==
    /\ req' = [name |-> name]
    /\ UNCHANGED <<nextId, clock, exchanged, catalogVars, reviewVars>>
    /\ IF ~get_permissions(name, caller)
       THEN /\ resp' = Plain("user_destroy", caller, Denied(caller))
            /\ UNCHANGED users
       ELSE IF get_object(name, caller) = {}
       THEN /\ resp' = Plain("user_destroy", caller, 404)
            /\ UNCHANGED users
       ELSE /\ users' = users \ get_object(name, caller)
            /\ resp' = Plain("user_destroy", caller, 204)

----------------------------------------------------------------------------
(* The user directory and the auth flow *)

Admin == [id |-> 1, username |-> "admin", email |-> "admin@x", bio |-> "",
          role |-> "admin"]

NoResponse == Plain("none", Anon, 0)

InitUsers ==
    /\ users = {Admin}
    /\ nextId = 2
    /\ clock = 0
    /\ exchanged = {}
    /\ categories = {}
    /\ genres = {}
    /\ titles = {}
    /\ reviews = {}
    /\ nextReviewId = 1
    /\ inflight = <<>>
    /\ req = <<>>
    /\ resp = NoResponse

\* the usernames of the directory requests
DirectoryNames == {"alice", "me"}

\* bodies of POST /users/: without bio, and with a username when with an email
CreateData ==
    {d \in UserData : /\ d.bio = Absent
                      /\ d.username \in DirectoryNames \cup BadUsernames \cup {Absent}
                      /\ d.username = Absent => d.email = Absent
                      /\ d.role \in {Absent, "admin"}}

\* bodies of PATCH /users/{name}/: one key, or a username and the role admin
PatchData ==
    {d \in UserData :
        /\ d.username \in DirectoryNames \cup BadUsernames \cup {Absent}
        /\ \/ Cardinality({f \in {"username", "email", "bio", "role"} :
                               d[f] # Absent}) <= 1
           \/ d.username # Absent /\ d.role = "admin" /\ d.email = Absent
                                  /\ d.bio = Absent}

NextUsers ==
    \/ \E username \in DirectoryNames, email \in {"a@x"} :
           sign_up(username, email)
    \/ \E caller \in Callers : UserList(caller)
    \/ \E caller \in Callers, data \in CreateData : UserCreate(caller, data)
    \/ \E caller \in Callers, name \in DirectoryNames :
           UserRetrieve(caller, name)
    \/ \E caller \in Callers, name \in DirectoryNames, data \in PatchData :
           UserUpdate(caller, name, data)
    \/ \E caller \in Callers, name \in DirectoryNames :
           UserDestroy(caller, name)

SpecUsers == InitUsers /\ [][NextUsers]_vars

----------------------------------------------------------------------------
(* The auth flow *)

EmailPatches == {d \in UserData : d.username = Absent /\ d.email # Absent
                                    /\ d.bio = Absent /\ d.role = Absent}

NextAuth ==
    \/ \E username \in Usernames \cup BadUsernames, email \in Emails :
           sign_up(username, email)
    \/ \E username \in {"alice", "bob"} \cup BadUsernames, code \in Codes :
           recieve_token(username, code)
    \/ Tick
    \/ \E caller \in Callers, data \in EmailPatches :
           UserUpdate(caller, "me", data)
    \/ \E caller \in Callers, name \in Usernames : UserDestroy(caller, name)

SpecAuth == InitUsers /\ [][NextAuth]_vars

----------------------------------------------------------------------------
(* Permission classes of api.permissions *)

SAFE_METHODS == {"GET", "HEAD", "OPTIONS"}

IsAdminOrReadOnly(method, caller) ==
    method \in SAFE_METHODS \/ (caller # Anon /\ UserOf(caller).role = "admin")

\* has_permission of IsResponsibleUserOrReadOnly
IsResponsibleUserOrReadOnly(method, caller) ==
    method \in SAFE_METHODS \/ caller # Anon

\* has_object_permission of IsResponsibleUserOrReadOnly
IsResponsibleFor(method, caller, author) ==
    \/ method \in SAFE_METHODS
    \/ caller # Anon /\ (caller = author
                          \/ UserOf(caller).role \in {"moderator", "admin"})

----------------------------------------------------------------------------
(* CategoryViewSet and GenreViewSet: create, list, destroy by slug *)

SlugData == [name : Names \cup {Absent}, slug : Slugs \cup {Absent}]

\* viewsets without permission_classes
CatalogAllowAny(method, caller) == TRUE

\* permission_classes of both viewsets
CatalogPermission(method, caller) == IsAdminOrReadOnly(method, caller)

\* CategorySerializer / GenreSerializer .is_valid: the fields with errors
SlugErrors(rows, data) ==
    {f \in {"name"} : data.name = Absent}
    \cup {f \in {"slug"} : data.slug = Absent
                             \/ \E r \in rows : r.slug = data.slug}

\* CreateModelMixin.create behind the permission check
CreateResponse(op, rows, caller, data) ==
    IF ~CatalogPermission("POST", caller)
    THEN Plain(op, caller, Denied(caller))
    ELSE IF SlugErrors(rows, data) # {}
    THEN Error(op, caller, 400, SlugErrors(rows, data))
    ELSE Plain(op, caller, 201)

\* DestroyModelMixin.destroy behind the permission check
DestroyResponse(op, rows, caller, slug) ==
    IF ~CatalogPermission("DELETE", caller)
    THEN Plain(op, caller, Denied(caller))
    ELSE IF \A r \in rows : r.slug # slug THEN Plain(op, caller, 404)
    ELSE Plain(op, caller, 204)

\* ListModelMixin.list behind the permission check
ListResponse(op, caller) ==
    IF ~CatalogPermission("GET", caller)
    THEN Plain(op, caller, Denied(caller))
    ELSE Plain(op, caller, 200)

CategoryCreate(caller, data) ==
    /\ req' = [data |-> data]
    /\ UNCHANGED <<authVars, genres, reviewVars>>
    /\ resp' = CreateResponse("category_create", categories, caller, data)
    /\ categories' = IF resp'.status = 201
                     THEN categories \cup {[name |-> data.name, slug |-> data.slug]}
                     ELSE categories

CategoryDestroy(caller, slug) ==
    /\ req' = [slug |-> slug]
    /\ UNCHANGED <<authVars, genres, reviewVars>>
    /\ resp' = DestroyResponse("category_destroy", categories, caller, slug)
    /\ categories' = IF resp'.status = 204
                     THEN {r \in categories : r.slug # slug}
                     ELSE categories

CategoryList(caller) ==
    /\ req' = <<>>
    /\ UNCHANGED <<authVars, catalogVars, reviewVars>>
    /\ resp' = ListResponse("category_list", caller)

GenreCreate(caller, data) ==
    /\ req' = [data |-> data]
    /\ UNCHANGED <<authVars, categories, reviewVars>>
    /\ resp' = CreateResponse("genre_create", genres, caller, data)
    /\ genres' = IF resp'.status = 201
                 THEN genres \cup {[name |-> data.name, slug |-> data.slug]}
                 ELSE genres

GenreDestroy(caller, slug) ==
    /\ req' = [slug |-> slug]
    /\ UNCHANGED <<authVars, categories, reviewVars>>
    /\ resp' = DestroyResponse("genre_destroy", genres, caller, slug)
    /\ genres' = IF resp'.status = 204
                 THEN {r \in genres : r.slug # slug}
                 ELSE genres

GenreList(caller) ==
    /\ req' = <<>>
    /\ UNCHANGED <<authVars, catalogVars, reviewVars>>
    /\ resp' = ListResponse("genre_list", caller)

\* a store with an admin, a plain user, a moderator and two titles
Alice == [id |-> 2, username |-> "alice", email |-> "a@x", bio |-> "",
          role |-> "user"]

Bob == [id |-> 3, username |-> "bob", email |-> "b@x", bio |-> "",
        role |-> "moderator"]

InitSeeded ==
    /\ users = {Admin, Alice, Bob}
    /\ nextId = 4
    /\ clock = 0
    /\ exchanged = {}
    /\ categories = {}
    /\ genres = {}
    /\ titles = {1, 2}
    /\ reviews = {}
    /\ nextReviewId = 1
    /\ inflight = <<>>
    /\ req = <<>>
    /\ resp = NoResponse

NextCatalog ==
    \/ \E caller \in Callers, data \in SlugData : CategoryCreate(caller, data)
    \/ \E caller \in Callers, slug \in Slugs : CategoryDestroy(caller, slug)
    \/ \E caller \in Callers : CategoryList(caller)
    \/ \E caller \in Callers, data \in SlugData : GenreCreate(caller, data)
    \/ \E caller \in Callers, slug \in Slugs : GenreDestroy(caller, slug)
    \/ \E caller \in Callers : GenreList(caller)

SpecCatalog == InitSeeded /\ [][NextCatalog]_vars

----------------------------------------------------------------------------
(* ReviewViewSet, nested under /titles/{title_id}/reviews/ *)

\* a body: each key carries a set, empty when the body has no such key
ReviewData == [text : {{"t"}, {}}, score : {{n} : n \in Scores} \cup {{}}]

Value(field) == CHOOSE v \in field : TRUE

TitleIds == {1, 2, 3}       \* the title_id of the path; title 3 is never stored

ReviewIds == 1..MaxReviewId

ReviewsOf(title) == {r \in reviews : r.title = title}

\* the fields ReviewSerializer takes from the body: author is declared
\* read_only, id and pub_date are read_only_fields
ReviewWritableFields == {"text", "score"}

\* ReviewSerializer.validate_author: QuerySet.exists() takes no keyword
\* arguments, so the call raises TypeError whenever it runs
validate_author(author, title) == "TypeError"

\* ReviewSerializer.is_valid: validate_<field> runs for the writable fields only
ReviewErrors(data, partial) ==
    {f \in ReviewWritableFields : data[f] = {} /\ ~partial}

ReviewCrash(data, author, title) ==
    /\ "author" \in ReviewWritableFields
    /\ validate_author(author, title) = "TypeError"

\* the part of POST before perform_create: the response that ends the request
\* there, or nothing when the serializer is valid
CreateRejection(caller, title, data) ==
    IF ~IsResponsibleUserOrReadOnly("POST", caller)
    THEN {Plain("review_create", caller, Denied(caller))}
    ELSE IF ReviewErrors(data, FALSE) # {}
    THEN {Error("review_create", caller, 400, ReviewErrors(data, FALSE))}
    ELSE IF ReviewCrash(data, caller, title)
    THEN {Plain("review_create", caller, 500)}
    ELSE {}

\* the Review table accepts any row: no constraint on (author, title)
ReviewInsert(rows, row) == rows \cup {row}

\* ReviewViewSet.perform_create
perform_create(author, title, score) ==
    IF title \notin titles
    THEN /\ resp' = Plain("review_create", author, 404)
         /\ UNCHANGED <<reviews, nextReviewId>>
    ELSE /\ nextReviewId <= MaxReviewId
         /\ reviews' = ReviewInsert(reviews,
                          [id |-> nextReviewId, title |-> title,
                           author |-> author, score |-> score])
         /\ nextReviewId' = nextReviewId + 1
         /\ resp' = Plain("review_create", author, 201)

\* POST /titles/{title}/reviews/, served without interruption
ReviewCreate(caller, title, data) ==
    /\ req' = [title |-> title, data |-> data]
    /\ UNCHANGED <<authVars, catalogVars, titles, inflight>>
    /\ IF CreateRejection(caller, title, data) # {}
       THEN /\ resp' \in CreateRejection(caller, title, data)
            /\ UNCHANGED <<reviews, nextReviewId>>
       ELSE perform_create(caller, title, Value(data.score))

\* POST /titles/{title}/reviews/ in two steps: is_valid, then perform_create
ReviewCreateValidate(caller, title, data) ==
    /\ UNCHANGED <<authVars, catalogVars, titles, reviews, nextReviewId>>
    /\ IF CreateRejection(caller, title, data) # {}
       THEN /\ resp' \in CreateRejection(caller, title, data)
            /\ req' = [title |-> title, data |-> data]
            /\ UNCHANGED inflight
       ELSE /\ Len(inflight) < MaxInflight
            /\ inflight' = Append(inflight, [author |-> caller, title |-> title,
                                             data |-> data])
            /\ UNCHANGED <<req, resp>>

ReviewCreateSave(i) ==
    /\ i \in 1..Len(inflight)
    /\ UNCHANGED <<authVars, catalogVars, titles>>
    /\ inflight' = [j \in 1..(Len(inflight) - 1) |->
                       IF j < i THEN inflight[j] ELSE inflight[j + 1]]
    /\ req' = [title |-> inflight[i].title, data |-> inflight[i].data]
    /\ perform_create(inflight[i].author, inflight[i].title,
                      Value(inflight[i].data.score))

\* ReviewViewSet.get_queryset and get_object: the response that ends a detail
\* request before its handler runs, or nothing
DetailRejection(op, method, caller, title, id) ==
    IF ~IsResponsibleUserOrReadOnly(method, caller)
    THEN {Plain(op, caller, Denied(caller))}
    ELSE IF title \notin titles \/ (\A r \in ReviewsOf(title) : r.id # id)
    THEN {Plain(op, caller, 404)}
    ELSE IF ~IsResponsibleFor(method, caller,
                (CHOOSE r \in ReviewsOf(title) : r.id = id).author)
    THEN {Plain(op, caller, 403)}
    ELSE {}

\* PATCH /titles/{title}/reviews/{id}/
ReviewUpdate(caller, title, id, data) ==
    /\ req' = [title |-> title, id |-> id, data |-> data]
    /\ UNCHANGED <<authVars, catalogVars, titles, nextReviewId, inflight>>
    /\ IF DetailRejection("review_update", "PATCH", caller, title, id) # {}
       THEN /\ resp' \in DetailRejection("review_update", "PATCH", caller,
                                         title, id)
            /\ UNCHANGED reviews
       ELSE LET row == CHOOSE r \in ReviewsOf(title) : r.id = id
            IN /\ reviews' = (reviews \ {row}) \cup
                    {[row EXCEPT !.score = IF data.score = {}
                                           THEN row.score
                                           ELSE Value(data.score)]}
               /\ resp' = Plain("review_update", caller, 200)

\* DELETE /titles/{title}/reviews/{id}/
ReviewDestroy(caller, title, id) ==
    /\ req' = [title |-> title, id |-> id]
    /\ UNCHANGED <<authVars, catalogVars, titles, nextReviewId, inflight>>
    /\ IF DetailRejection("review_destroy", "DELETE", caller, title, id) # {}
       THEN /\ resp' \in DetailRejection("review_destroy", "DELETE", caller,
                                         title, id)
            /\ UNCHANGED reviews
       ELSE /\ reviews' = {r \in reviews : r.id # id}
            /\ resp' = Plain("review_destroy", caller, 204)

----------------------------------------------------------------------------
(* TitleViewSet: the rating of the read representation *)

RECURSIVE ScoreSum(_)
ScoreSum(rows) ==
    IF rows = {} THEN 0
    ELSE LET r == CHOOSE x \in rows : TRUE
         IN r.score + ScoreSum(rows \ {r})

\* Avg('reviews__score'): no value without rows, else the exact quotient
Avg(rows) ==
    IF rows = {} THEN {}
    ELSE {[num |-> ScoreSum(rows), den |-> Cardinality(rows)]}

\* a representation that rounds up
IntegerFieldCeiling(value) == {(q.num + q.den - 1) \div q.den : q \in value}

\* IntegerField.to_representation: int(value); None is passed through
IntegerField(value) == {q.num \div q.den : q \in value}

\* the rating of the body TitleReadOnlySerializer gives for a title
Rating(title) == IntegerField(Avg(ReviewsOf(title)))

\* GET /titles/{title}/
TitleRetrieve(caller, title) ==
    /\ req' = [title |-> title]
    /\ UNCHANGED <<authVars, catalogVars, reviewVars>>
    /\ resp' = IF ~IsAdminOrReadOnly("GET", caller)
               THEN Plain("title_retrieve", caller, Denied(caller))
               ELSE IF title \notin titles
               THEN Plain("title_retrieve", caller, 404)
               ELSE Resp("title_retrieve", caller, 200, NoFields, NoToken,
                         Rating(title), NoMail)

Reviewers == {Alice.id, Bob.id, Anon}

\* bodies of PATCH /titles/{title_id}/reviews/{id}/: a score or nothing
UpdateData == {d \in ReviewData : d.text = {}}

NextReview ==
    \/ \E caller \in Reviewers, title \in TitleIds, data \in ReviewData :
           ReviewCreate(caller, title, data)
    \/ \E caller \in Reviewers, title \in {1, 3}, id \in ReviewIds,
          data \in UpdateData : ReviewUpdate(caller, title, id, data)
    \/ \E caller \in Reviewers, title \in TitleIds, id \in ReviewIds :
           ReviewDestroy(caller, title, id)
    \/ \E caller \in Reviewers, title \in TitleIds : TitleRetrieve(caller, title)

SpecReview == InitSeeded /\ [][NextReview]_vars

\* the concurrent requests: two authors, a stored and a missing title, a valid
\* and an invalid body
RaceData == {d \in ReviewData : d.text # {} /\ d.score \in {{1}, {}}}

NextReviewRace ==
    \/ \E caller \in {Alice.id, Bob.id}, title \in {1, 3}, data \in RaceData :
           ReviewCreateValidate(caller, title, data)
    \/ \E i \in 1..MaxInflight : ReviewCreateSave(i)
    \/ \E caller \in {Alice.id, Bob.id}, id \in ReviewIds :
           ReviewDestroy(caller, 1, id)

SpecReviewRace == InitSeeded /\ [][NextReviewRace]_vars

----------------------------------------------------------------------------
(* Properties *)

IsAdmin(caller) == caller # Anon /\ UserOf(caller).role = "admin"

Duplicate(author, title) ==
    \E r \in reviews : r.author = author /\ r.title = title

\* C1: a review-create request by a user who already has a review on the title
\* is answered with a 4xx response and stores nothing; a valid request by a
\* user without a review on the title is answered 201 and stores exactly one
\* more review.
C1_SecondReviewRejected ==
    [][(resp'.op = "review_create" /\ resp'.caller # Anon) =>
          /\ Duplicate(resp'.caller, req'.title) =>
                /\ resp'.status \in 400..499
                /\ reviews' = reviews
          /\ (~Duplicate(resp'.caller, req'.title) /\ req'.title \in titles
                /\ req'.data.text # {} /\ req'.data.score # {}) =>
                /\ resp'.status = 201
                /\ Cardinality(reviews') = Cardinality(reviews) + 1
                /\ reviews \subseteq reviews'
                /\ \E r \in reviews' \ reviews :
                      r.author = resp'.caller /\ r.title = req'.title]_vars

\* C2: the rating of every title is the arithmetic mean of the scores of its
\* reviews, and null when it has none.
C2_RatingIsMean ==
    \A title \in titles :
        LET rows == ReviewsOf(title)
        IN /\ rows = {} => Rating(title) = {}
           /\ rows # {} =>
                 \E q \in Rating(title) :
                     q * Cardinality(rows) = ScoreSum(rows)

\* C2, amended: the rating of every title is the arithmetic mean of the scores
\* of its reviews truncated to an integer, and null when it has none; a title
\* body carries that rating.
C2_RatingIsTruncatedMean ==
    /\ \A title \in titles :
          LET rows == ReviewsOf(title)
              n == Cardinality(rows)
          IN /\ rows = {} => Rating(title) = {}
             /\ rows # {} =>
                   \E q \in Rating(title) :
                       /\ Rating(title) = {q}
                       /\ q * n <= ScoreSum(rows)
                       /\ ScoreSum(rows) < (q + 1) * n
    /\ (resp.op = "title_retrieve" /\ resp.status = 200) =>
          resp.rating = Rating(req.title)

\* a title with the scores 1 and 2 was retrieved with the rating 1
C2_Witness ==
    /\ resp.op = "title_retrieve"
    /\ resp.status = 200
    /\ resp.rating = {1}
    /\ Cardinality(ReviewsOf(req.title)) = 2
    /\ ScoreSum(ReviewsOf(req.title)) = 3

\* C3: a signup whose (username, email) pair is already a user returns 200 and
\* changes no user; a valid signup that collides with no user returns 200 and
\* adds one user; after a 200 exactly one user has the pair.
C3_SignupIdempotent ==
    [][(resp'.op = "sign_up" /\ clock' = clock) =>
          /\ (\E u \in users : u.username = req'.username
                                 /\ u.email = req'.email) =>
                /\ resp'.status = 200
                /\ users' = users
          /\ (req'.username \in Usernames \ {"me"}
                /\ \A u \in users : u.username # req'.username
                                      /\ u.email # req'.email) =>
                /\ resp'.status = 200
                /\ users \subseteq users'
                /\ Cardinality(users') = Cardinality(users) + 1
          /\ resp'.status = 200 =>
                Cardinality({u \in users' : u.username = req'.username
                                              /\ u.email = req'.email}) = 1]_vars

\* a signup of a pair that was a user already: the user holds a token for a
\* code of an earlier signup
C3_Witness ==
    /\ resp.op = "sign_up"
    /\ resp.status = 200
    /\ \E code \in exchanged, u \in users :
          /\ code.uid = u.id
          /\ u.username = req.username
          /\ u.email = req.email
          /\ code.email = u.email

C5_CodeIsSingleUse ==
    [][(/\ resp'.op = "recieve_token"
        /\ clock' = clock
        /\ req'.code \in exchanged
        /\ \E u \in users : u.username = req'.username /\ u.id = req'.code.uid)
       => (resp'.token = {} /\ resp'.status \in 400..499)]_vars

\* C6: on PATCH /users/me by a non-admin caller, another username or any role
\* is answered 400 naming the field and changes no user; a body with bio alone
\* is answered 200 and sets the caller's bio.
C6_SelfPatchRestricted ==
    [][(resp'.op = "user_update" /\ req'.name = "me" /\ resp'.caller # Anon
          /\ ~IsAdmin(resp'.caller)) =>
          LET me == UserOf(resp'.caller)
              data == req'.data
              renames == data.username \notin {Absent, me.username}
          IN /\ renames =>
                   /\ resp'.status = 400
                   /\ "username" \in resp'.fields
                   /\ users' = users
             /\ data.role # Absent =>
                   /\ resp'.status = 400
                   /\ ~renames => "role" \in resp'.fields
                   /\ users' = users
             /\ (data.bio # Absent /\ data.username = Absent
                   /\ data.email = Absent /\ data.role = Absent) =>
                   /\ resp'.status = 200
                   /\ users' = (users \ {me})
                                 \cup {[me EXCEPT !.bio = data.bio]}]_vars

\* a non-admin caller with a bio was refused a role on /users/me
C6_Witness ==
    /\ resp.op = "user_update"
    /\ req.name = "me"
    /\ req.data.role = "user"
    /\ resp.caller # Anon
    /\ \E u \in users : u.id = resp.caller /\ u.role # "admin" /\ u.bio = "hi"
    /\ resp.status = 400
    /\ resp.fields = {"role"}

\* C7: a user is created through /users or deleted only by an admin, and a
\* non-admin caller completes nothing in the directory but the retrieve and
\* the update of the own record through /users/me.
C7_DirectoryAdminOnly ==
    [][(resp'.op \in {"user_list", "user_create", "user_retrieve",
                      "user_update", "user_destroy"}
          /\ resp'.status \in 200..299
          /\ ~IsAdmin(resp'.caller)) =>
          /\ resp'.caller # Anon
          /\ resp'.op \in {"user_retrieve", "user_update"}
          /\ req'.name = "me"
          /\ {u.id : u \in users'} = {u.id : u \in users}
          /\ \A u \in users : u.id # resp'.caller => u \in users']_vars

\* C8: a create or a delete by slug from a non-admin identity is answered 403
\* and changes no category or genre, also for a slug that is not stored; a
\* delete by an admin of a slug that is not stored is answered 404 and changes
\* nothing; a list is answered 200 for every caller.
C8_CatalogAdminOnly ==
    [][/\ (resp'.op \in {"category_create", "genre_create", "category_destroy",
                         "genre_destroy"}
             /\ resp'.caller # Anon /\ ~IsAdmin(resp'.caller)) =>
             /\ resp'.status = 403
             /\ categories' = categories
             /\ genres' = genres
       /\ (resp'.op = "category_destroy" /\ IsAdmin(resp'.caller)
             /\ \A r \in categories : r.slug # req'.slug) =>
             /\ resp'.status = 404
             /\ categories' = categories
       /\ (resp'.op = "genre_destroy" /\ IsAdmin(resp'.caller)
             /\ \A r \in genres : r.slug # req'.slug) =>
             /\ resp'.status = 404
             /\ genres' = genres
       /\ resp'.op \in {"category_list", "genre_list"} =>
             resp'.status = 200]_vars

\* a non-admin identity was refused the delete of a stored category
C8_Witness ==
    /\ resp.op = "category_destroy"
    /\ resp.caller # Anon
    /\ ~IsAdmin(resp.caller)
    /\ resp.status = 403
    /\ \E r \in categories : r.slug = req.slug

\* C9: at most one review is stored for an author and a title, also when two
\* review-create requests of the author interleave.
C9_OneReviewPerAuthorAndTitle ==
    \A r1 \in reviews, r2 \in reviews :
        (r1.author = r2.author /\ r1.title = r2.title) => r1 = r2

\* C10: no stored user has the username "me"; a signup with it is answered 400
\* naming username, a directory create or update that carries it is answered
\* 4xx (a 400 naming username or another offending field), and none of them
\* changes a user.
C10_MeIsReserved ==
    [][/\ \A u \in users' : u.username # "me"
       /\ (resp'.op = "sign_up" /\ req'.username = "me") =>
             /\ resp'.status = 400
             /\ "username" \in resp'.fields
             /\ users' = users
       /\ (resp'.op \in {"user_create", "user_update"}
             /\ req'.data.username = "me") =>
             /\ resp'.status \in 400..499
             /\ users' = users
             /\ resp'.status = 400 =>
                   resp'.fields \cap {"username", "email", "role"} # {}]_vars

====
